---- MODULE Spec2Model ----
(***************************************************************************)
(* State-machine model of src/index.ts (NAASH): the readline overlay with  *)
(* its ghost suggestion, the suggestion engine, the command dispatcher     *)
(* (runShellCommand), the generic execution path (runTheCommand) and the   *)
(* command log.                                                            *)
(*                                                                         *)
(* A JavaScript string is a sequence of one-character strings.             *)
(***************************************************************************)
EXTENDS Integers, Sequences, FiniteSets, TLC

VARIABLES
    line,                    \* rl.line
    cursor,                  \* rl.cursor
    currentSuggestion,       \* index.ts:48
    suggestionAccepted,      \* index.ts:145
    bypassRlLine,            \* index.ts:102
    pendingTicks,            \* process.nextTick callbacks queued at index.ts:171
    lastRenders,             \* what the calls of rl._refreshLine in the last step drew
    currentSessionCommands,  \* index.ts:52
    historicalCommands,      \* index.ts:51
    historyFile,             \* lines appended to ~/.t_history by saveToHistory
    heap,                    \* the CommandLog objects made by logInit, by reference
    commandLog,              \* index.ts:72, references into heap
    errorFile,               \* content of ~/.t_error as last written
    question,                \* the callback rl.question holds: "none", "prompt", "apikey"
    keyWait,                 \* the runShellCommand call suspended in checkKey
    procs,                   \* children of spawn whose handlers can still run
    aiCalls,                 \* runShellCommand calls suspended on the collaborator
    defaultModel,            \* index.ts:37
    keyFile,                 \* whether ~/.t.env exists
    closed,                  \* rl.close() was called
    printed,                 \* what the last AI-assist command wrote with console.log
    clipboard,               \* what clipboard.writeSync last received
    submits,                 \* lines handed to runShellCommand so far
    lastInv,                 \* bookkeeping of the invocation whose code ran last
    lastKey                  \* the last key the keypress handler saw, and whether the
                             \* worker has delivered a message since

editorVars == <<line, cursor, currentSuggestion, suggestionAccepted, bypassRlLine,
                pendingTicks, lastRenders, lastKey>>
poolVars == <<currentSessionCommands, historicalCommands, historyFile>>
logVars == <<heap, commandLog, errorFile>>
aiVars == <<keyWait, aiCalls, defaultModel, keyFile, printed, clipboard>>
vars == <<line, cursor, currentSuggestion, suggestionAccepted, bypassRlLine,
          pendingTicks, lastRenders, currentSessionCommands, historicalCommands,
          historyFile, heap, commandLog, errorFile, question, keyWait, procs,
          aiCalls, defaultModel, keyFile, closed, printed, clipboard, submits,
          lastInv, lastKey>>

----------------------------------------------------------------------------
(* Bounds of the model.                                                    *)

MaxLen == 2          \* longest line the user types key by key
MaxPending == 1      \* deferred recomputes queued at once
MaxReturns == 1      \* lines submitted with the return key in Spec
MaxSubmits == 2      \* lines submitted in ExecSpec
MaxRuns == 3         \* lines submitted in RunSpec
MaxStderr == 1       \* stderr chunks a child writes
MaxPool == 2         \* entries of a candidate pool in MatchSpec

----------------------------------------------------------------------------
(* Strings.                                                                *)

EMPTY == <<>>
NONE == "none"

LowerChar(c) ==
    CASE c = "A" -> "a" [] c = "B" -> "b" [] c = "C" -> "c" [] c = "D" -> "d"
      [] c = "E" -> "e" [] c = "F" -> "f" [] c = "G" -> "g" [] c = "H" -> "h"
      [] c = "I" -> "i" [] c = "J" -> "j" [] c = "K" -> "k" [] c = "L" -> "l"
      [] c = "M" -> "m" [] c = "N" -> "n" [] c = "O" -> "o" [] c = "P" -> "p"
      [] c = "Q" -> "q" [] c = "R" -> "r" [] c = "S" -> "s" [] c = "T" -> "t"
      [] c = "U" -> "u" [] c = "V" -> "v" [] c = "W" -> "w" [] c = "X" -> "x"
      [] c = "Y" -> "y" [] c = "Z" -> "z" [] OTHER -> c

\* String.prototype.toLowerCase
ToLowerCase(s) == [i \in 1..Len(s) |-> LowerChar(s[i])]

\* String.prototype.startsWith
StartsWith(s, p) == Len(p) <= Len(s) /\ SubSeq(s, 1, Len(p)) = p

\* String.prototype.slice(0, n) and slice(n), for 0 <= n
SliceTo(s, n) == SubSeq(s, 1, IF n < Len(s) THEN n ELSE Len(s))
SliceFrom(s, n) == SubSeq(s, n + 1, Len(s))

WhiteSpace == {" ", "\t"}

\* String.prototype.trim
RECURSIVE TrimLeft(_)
TrimLeft(s) == IF s # EMPTY /\ Head(s) \in WhiteSpace THEN TrimLeft(Tail(s)) ELSE s
RECURSIVE TrimRight(_)
TrimRight(s) ==
    IF s # EMPTY /\ s[Len(s)] \in WhiteSpace
    THEN TrimRight(SubSeq(s, 1, Len(s) - 1)) ELSE s
Trim(s) == TrimRight(TrimLeft(s))

\* command.split(" "): the pieces between single spaces
RECURSIVE Split(_)
Split(s) ==
    IF \E i \in 1..Len(s) : s[i] = " "
    THEN LET i == CHOOSE k \in 1..Len(s) :
                      s[k] = " " /\ \A j \in 1..(k - 1) : s[j] # " "
         IN <<SubSeq(s, 1, i - 1)>> \o Split(SubSeq(s, i + 1, Len(s)))
    ELSE <<s>>

\* args.join(" ")
RECURSIVE Join(_)
Join(a) ==
    IF a = <<>> THEN EMPTY
    ELSE IF Len(a) = 1 THEN a[1]
    ELSE a[1] \o <<" ">> \o Join(Tail(a))

\* mutant of FindLast: the first match instead of the last
FindLast_First(list, searchText) ==
    LET hits == {i \in 1..Len(list) : StartsWith(ToLowerCase(list[i]), searchText)}
    IN IF hits = {} THEN EMPTY
       ELSE list[CHOOSE i \in hits : \A j \in hits : i <= j]

\* Array.prototype.findLast(...) || "" with the predicate of updateSuggestion
FindLast(list, searchText) ==
    LET hits == {i \in 1..Len(list) : StartsWith(ToLowerCase(list[i]), searchText)}
    IN IF hits = {} THEN EMPTY
       ELSE list[CHOOSE i \in hits : \A j \in hits : j <= i]

\* stripAnsi: drops the escape sequences (each modelled as one element)
AnsiCodes == {"ESC[31m", "ESC[0m"}
RECURSIVE StripAnsi(_)
StripAnsi(s) ==
    IF s = EMPTY THEN EMPTY
    ELSE IF Head(s) \in AnsiCodes THEN StripAnsi(Tail(s))
    ELSE <<Head(s)>> \o StripAnsi(Tail(s))

----------------------------------------------------------------------------
(* Suggestion engine: updateSuggestion, index.ts:201-248.                   *)

commonCommands ==
    << <<"g","i","t"," ","s","t","a","t","u","s">>,
       <<"g","i","t"," ","a","d","d"," ",".">>,
       <<"g","i","t"," ","c","o","m","m","i","t"," ","-","m">>,
       <<"g","i","t"," ","p","u","s","h"," ","o","r","i","g","i","n">>,
       <<"n","p","m"," ","i","n","s","t","a","l","l">>,
       <<"n","p","m"," ","r","u","n"," ","d","e","v">>,
       <<"l","s"," ","-","l","a">>,
       <<"c","d"," ",".",".">>,
       <<"d","o","c","k","e","r"," ","p","s">>,
       <<"d","o","c","k","e","r","-","c","o","m","p","o","s","e"," ","u","p">>,
       <<"h","i","s","t","o","r","y">>,
       <<"e","x","i","t">> >>

\* index.ts:202, the guard that ends updateSuggestion early
NoInput(input) == Trim(input) = EMPTY

\* index.ts:207-245, the value left in currentSuggestion
SearchPools(input, cur, session, historical) ==
    LET searchText == ToLowerCase(SliceTo(input, cur))
        fromSession == FindLast(session, searchText)
        fromHistory == FindLast(historical, searchText)
    IN IF fromSession # EMPTY THEN fromSession
       ELSE IF fromHistory # EMPTY THEN fromHistory
       ELSE FindLast(commonCommands, searchText)

----------------------------------------------------------------------------
(* Render: rl._refreshLine, index.ts:104-127.                               *)

\* index.ts:105
CustomRender(l, s, bypass) == s # EMPTY /\ (l # EMPTY \/ bypass)

\* mutant of GhostCondition: the dim text is written unconditionally
GhostCondition_Always(s, l) == TRUE

\* index.ts:116
GhostCondition(s, l) == StartsWith(s, l)

\* what one call of rl._refreshLine writes
Drawn(l, c, s, bypass) ==
    LET custom == CustomRender(l, s, bypass)
        ghost == custom /\ GhostCondition(s, l)
    IN [custom |-> custom,
        before |-> IF custom THEN SliceTo(l, c) ELSE l,
        ghost |-> ghost,
        dim |-> IF ghost THEN SliceFrom(s, c) ELSE EMPTY,
        sug |-> s,
        cur |-> c]

\* index.ts:122
BypassAfter(l, s, bypass) == IF CustomRender(l, s, bypass) THEN FALSE ELSE bypass

----------------------------------------------------------------------------
(* Command log: logInit (index.ts:430-454), commandLog.push and            *)
(* saveOutputToFile.  A CommandLog object lives in heap and is shared by    *)
(* reference between the handlers of its child and the commandLog array.    *)

\* index.ts:430-454 (id, timestamp, cwd and metadata carry no behaviour)
logInit(command) ==
    [raw |-> command,
     executable |-> Split(command)[1],
     arguments |-> Tail(Split(command)),
     stderr |-> EMPTY,
     exitCode |-> 0,
     error |-> EMPTY]

\* saveOutputToFile(commandLog): the whole array, serialised, replaces the file
saveOutputToFile(log, objects) == [i \in 1..Len(log) |-> objects[log[i]]]

\* saveToHistory(command): one more line in the history file
saveToHistory(file, command) == Append(file, command)

\* rl.question(query, cb): a callback that is already waiting is kept
Question(held, cb) == IF closed \/ held # NONE THEN held ELSE cb

\* prompt(), index.ts:195-199
prompt(held) == Question(held, "prompt")

\* rl.question shows the prompt with the cursor at column 0
CursorAfterPrompt == IF closed THEN cursor ELSE 0

\* bookkeeping of one invocation of runShellCommand
NewInv(command) ==
    [command |-> command, via |-> "start", entry |-> 0,
     prompts |-> 0, logAdds |-> 0, flushes |-> 0, histAdds |-> 0, sessAdds |-> 0,
     code |-> 0, isNull |-> FALSE,
     got |-> [kind |-> "none", text |-> EMPTY], clips |-> 0]

----------------------------------------------------------------------------
(* Generic execution path: runTheCommand, index.ts:381-428.                 *)

ExitCodes == {0, 1, 2}
SpawnErrno == -2                     \* close code of a child that never started
ErrorMessages == {<<"ESC[31m", "E", "N", "O", "E", "N", "T">>}
StderrChunks == {<<"ESC[31m", "e", "r", "r", "ESC[0m">>}

\* index.ts:409
ExitCodeOf(code, isNull) == IF isNull \/ code = 0 THEN 0 ELSE code

\* mutant of ClosePersists: every close is logged
ClosePersists_Always(code, isNull) == TRUE

\* index.ts:411
ClosePersists(code, isNull) == isNull \/ code # 0

\* mutant of LaunchFailure: the exit code is left as logInit set it
LaunchFailure_NoCode(entry, message) == [entry EXCEPT !.error = message]

\* index.ts:400-401 and 421-422
LaunchFailure(entry, message) == [entry EXCEPT !.error = message, !.exitCode = 1]

\* index.ts:384-392 and 420-427: spawn either returns a child or throws
runTheCommand(command, inv, held, throws, msg) ==
    LET id == Len(heap) + 1
        entry == logInit(command)
    IN IF throws
       THEN /\ heap' = Append(heap, LaunchFailure(entry, msg))
            /\ commandLog' = Append(commandLog, id)
            /\ errorFile' = saveOutputToFile(commandLog', heap')
            /\ question' = prompt(held)
            /\ procs' = procs
            /\ lastInv' = [inv EXCEPT !.via = "throw", !.entry = id, !.prompts = 1,
                                      !.logAdds = 1, !.flushes = 1]
       ELSE /\ heap' = Append(heap, entry)
            /\ procs' = Append(procs, [entry |-> id, phase |-> "running",
                                       chunks |-> 0,
                                       inv |-> [inv EXCEPT !.via = "spawn",
                                                           !.entry = id]])
            /\ question' = held
            /\ lastInv' = [inv EXCEPT !.via = "spawn", !.entry = id]
            /\ UNCHANGED <<commandLog, errorFile>>

RemoveAt(seq, i) == SubSeq(seq, 1, i - 1) \o SubSeq(seq, i + 1, Len(seq))

\* index.ts:394-397
ChildStderr(i, data) ==
    /\ i \in 1..Len(procs)
    /\ procs[i].phase = "running"
    /\ procs[i].chunks < MaxStderr
    /\ heap' = [heap EXCEPT ![procs[i].entry].stderr = @ \o StripAnsi(data)]
    /\ procs' = [procs EXCEPT ![i].chunks = @ + 1]
    /\ lastInv' = [procs[i].inv EXCEPT !.via = "stderr"]
    /\ pendingTicks = 0
    /\ UNCHANGED <<editorVars, poolVars, commandLog, errorFile, question, aiVars,
                   closed, submits>>

\* index.ts:399-406: the child could not be started
ChildError(i, msg) ==
    /\ i \in 1..Len(procs)
    /\ procs[i].phase = "running"
    /\ procs[i].chunks = 0
    /\ LET inv == [procs[i].inv EXCEPT !.via = "error", !.prompts = @ + 1,
                                       !.logAdds = @ + 1, !.flushes = @ + 1]
       IN /\ heap' = [heap EXCEPT ![procs[i].entry] = LaunchFailure(@, StripAnsi(msg))]
          /\ commandLog' = Append(commandLog, procs[i].entry)
          /\ errorFile' = saveOutputToFile(commandLog', heap')
          /\ question' = prompt(question)
          /\ procs' = [procs EXCEPT ![i].phase = "errored", ![i].inv = inv]
          /\ lastInv' = inv
    /\ pendingTicks = 0
    /\ cursor' = CursorAfterPrompt
    /\ lastRenders' = <<>>
    /\ UNCHANGED <<line, currentSuggestion, suggestionAccepted, bypassRlLine,
                   pendingTicks, lastKey, poolVars, aiVars, closed, submits>>

\* index.ts:408-419
ChildClose(i, code, isNull) ==
    /\ i \in 1..Len(procs)
    /\ IF procs[i].phase = "errored"
       THEN code = SpawnErrno /\ ~isNull
       ELSE code \in ExitCodes /\ (isNull => code = 0)
    /\ LET persists == ClosePersists(code, isNull)
           inv == [procs[i].inv EXCEPT
                      !.via = "close", !.prompts = @ + 1, !.histAdds = @ + 1,
                      !.sessAdds = @ + 1, !.code = code, !.isNull = isNull,
                      !.logAdds = IF persists THEN @ + 1 ELSE @,
                      !.flushes = IF persists THEN @ + 1 ELSE @]
       IN /\ heap' = [heap EXCEPT ![procs[i].entry].exitCode = ExitCodeOf(code, isNull)]
          /\ IF persists
             THEN /\ commandLog' = Append(commandLog, procs[i].entry)
                  /\ errorFile' = saveOutputToFile(commandLog', heap')
             ELSE UNCHANGED <<commandLog, errorFile>>
          /\ historyFile' = saveToHistory(historyFile, heap[procs[i].entry].raw)
          /\ currentSessionCommands' =
                 Append(currentSessionCommands, heap[procs[i].entry].raw)
          /\ question' = prompt(question)
          /\ procs' = RemoveAt(procs, i)
          /\ lastInv' = inv
    /\ pendingTicks = 0
    /\ cursor' = CursorAfterPrompt
    /\ lastRenders' = <<>>
    /\ UNCHANGED <<line, currentSuggestion, suggestionAccepted, bypassRlLine,
                   pendingTicks, lastKey, historicalCommands, aiVars, closed, submits>>

----------------------------------------------------------------------------
(* Built-in commands and the AI-assist commands: runShellCommand,           *)
(* index.ts:250-363, askGemini/askOpenAi (365-379), checkKey (456-484).     *)

B_cd == <<"c", "d">>
B_history == <<"h", "i", "s", "t", "o", "r", "y">>
B_cat == <<"c", "a", "t">>
B_exit == <<"e", "x", "i", "t">>
B_switchAI == <<"s", "w", "i", "t", "c", "h", "A", "I">>
B_copy == <<"c", "o", "p", "y">>
B_hm == <<"h", "m">>
B_hp == <<"h", "p">>
B_he == <<"h", "e">>

\* index.ts:295 and 331
SENTINEL == <<"3", "d", "8", "a", "1", "9", "a", "7", "0", "4">>
UNABLE == [kind |-> "unable", text |-> EMPTY]
UNDEFINED == [kind |-> "undefined", text |-> EMPTY]
Text(t) == [kind |-> "text", text |-> t]

\* what the collaborator (gemini.ts, openai.ts) can answer
AIAnswers == {SENTINEL, <<"l", "s">>, EMPTY}

\* index.ts:365-379: whether askGemini/askOpenAi reaches the collaborator at all
AsksCollaborator(to, message) == to = "hm" \/ (to = "hp" /\ message # EMPTY)

\* index.ts:295-305 and 331-341
PrintedFor(res) == IF res = SENTINEL THEN UNABLE ELSE Text(res)
CopiedFor(res) == IF res = SENTINEL \/ res = EMPTY THEN <<>> ELSE <<res>>

\* index.ts:284-308 (hm) and 311-344 (hp), from the point where checkKey resolved
AfterCheckKey(to, args, inv, held, ok) ==
    IF ~ok
    THEN /\ question' = prompt(held)
         /\ lastInv' = [inv EXCEPT !.via = "nokey", !.prompts = @ + 1]
         /\ UNCHANGED <<aiCalls, printed, clipboard>>
    ELSE LET noMessage == to = "hp" /\ args = <<>>
             held1 == IF noMessage THEN prompt(held) ELSE held
             inv1 == IF noMessage THEN [inv EXCEPT !.prompts = @ + 1] ELSE inv
         IN IF AsksCollaborator(to, Join(args))
            THEN /\ aiCalls' = Append(aiCalls, [to |-> to, inv |-> inv1])
                 /\ question' = held1
                 /\ lastInv' = [inv1 EXCEPT !.via = "asked"]
                 /\ UNCHANGED <<printed, clipboard>>
            ELSE /\ printed' = UNDEFINED
                 /\ question' = prompt(held1)
                 /\ lastInv' = [inv1 EXCEPT !.via = "ai", !.got = UNDEFINED,
                                            !.prompts = @ + 1]
                 /\ UNCHANGED <<aiCalls, clipboard>>

\* index.ts:250-363, up to its first suspension; the question slot is `held`
runShellCommand(command, held, throws, msg) ==
    LET cmd == Split(command)[1]
        args == Tail(Split(command))
        inv == NewInv(command)
        done == [inv EXCEPT !.via = "builtin", !.prompts = 1]
    IN CASE cmd = B_cd \/ cmd = B_cat ->
              /\ currentSessionCommands' = Append(currentSessionCommands, command)
              /\ historyFile' = saveToHistory(historyFile, command)
              /\ question' = prompt(held)
              /\ lastInv' = [done EXCEPT !.histAdds = 1, !.sessAdds = 1]
              /\ UNCHANGED <<logVars, procs, aiVars, closed>>
         [] cmd = B_history ->
              /\ question' = prompt(held)
              /\ lastInv' = done
              /\ UNCHANGED <<currentSessionCommands, historyFile, logVars, procs,
                             aiVars, closed>>
         [] cmd = B_exit ->
              /\ closed' = TRUE
              /\ question' = held
              /\ lastInv' = [inv EXCEPT !.via = "exit"]
              /\ UNCHANGED <<currentSessionCommands, historyFile, logVars, procs,
                             aiVars>>
         [] cmd = B_switchAI ->
              /\ defaultModel' = IF defaultModel = "openAi" THEN "gemini" ELSE "openAi"
              /\ question' = prompt(held)
              /\ lastInv' = done
              /\ UNCHANGED <<currentSessionCommands, historyFile, logVars, procs,
                             keyWait, aiCalls, keyFile, printed, clipboard, closed>>
         [] cmd = B_copy ->
              /\ errorFile' = saveOutputToFile(commandLog, heap)
              /\ question' = prompt(held)
              /\ lastInv' = [done EXCEPT !.flushes = 1]
              /\ UNCHANGED <<currentSessionCommands, historyFile, heap, commandLog,
                             procs, aiVars, closed>>
         [] cmd = B_hm \/ cmd = B_hp ->
              LET to == IF cmd = B_hm THEN "hm" ELSE "hp"
              IN /\ IF keyFile
                    THEN /\ AfterCheckKey(to, args, inv, held, TRUE)
                         /\ keyWait' = keyWait
                    ELSE /\ keyWait' = <<[to |-> to, args |-> args, inv |-> inv]>>
                         /\ question' = Question(held, "apikey")
                         /\ lastInv' = [inv EXCEPT !.via = "askkey"]
                         /\ UNCHANGED <<aiCalls, printed, clipboard>>
                 /\ UNCHANGED <<currentSessionCommands, historyFile, logVars, procs,
                                defaultModel, keyFile, closed>>
         [] cmd = B_he ->
              /\ aiCalls' = Append(aiCalls, [to |-> "he", inv |-> inv])
              /\ question' = held
              /\ lastInv' = [inv EXCEPT !.via = "asked"]
              /\ UNCHANGED <<currentSessionCommands, historyFile, logVars, procs,
                             keyWait, defaultModel, keyFile, printed, clipboard,
                             closed>>
         [] OTHER ->
              /\ runTheCommand(command, inv, held, throws, msg)
              /\ UNCHANGED <<currentSessionCommands, historyFile, aiVars, closed>>

\* index.ts:465-483: the line typed at the API key question
KeyAnswered(answer, writeOk) ==
    LET w == keyWait[1]
        ok == Trim(answer) # EMPTY /\ writeOk
    IN /\ keyWait' = <<>>
       /\ keyFile' = ok
       /\ AfterCheckKey(w.to, w.args, w.inv, NONE, ok)
       /\ UNCHANGED <<currentSessionCommands, historyFile, logVars, procs,
                      defaultModel, closed>>

\* index.ts:288-305, 324-341, 350-359: the collaborator answered
AIReturn(i, res) ==
    /\ i \in 1..Len(aiCalls)
    /\ LET c == aiCalls[i]
           hasCheck == c.to # "he"
       IN /\ printed' = IF hasCheck THEN PrintedFor(res) ELSE Text(res)
          /\ clipboard' = IF hasCheck THEN clipboard \o CopiedFor(res) ELSE clipboard
          /\ question' = prompt(question)
          /\ lastInv' = [c.inv EXCEPT !.via = "ai", !.got = Text(res),
                                      !.prompts = @ + 1,
                                      !.clips = IF hasCheck THEN Len(CopiedFor(res))
                                                ELSE 0]
          /\ aiCalls' = RemoveAt(aiCalls, i)
    /\ pendingTicks = 0
    /\ cursor' = CursorAfterPrompt
    /\ lastRenders' = <<>>
    /\ UNCHANGED <<line, currentSuggestion, suggestionAccepted, bypassRlLine,
                   pendingTicks, lastKey, poolVars, logVars, procs, keyWait,
                   defaultModel, keyFile, closed, submits>>

\* index.ts:290, 326, 352: the awaited call rejects and nothing catches it
AIThrow(i) ==
    /\ i \in 1..Len(aiCalls)
    /\ lastInv' = [aiCalls[i].inv EXCEPT !.via = "aithrow"]
    /\ aiCalls' = RemoveAt(aiCalls, i)
    /\ pendingTicks = 0
    /\ UNCHANGED <<editorVars, poolVars, logVars, procs, question, keyWait,
                   defaultModel, keyFile, closed, printed, clipboard, submits>>

----------------------------------------------------------------------------
(* Line editor: what readline does to rl.line and rl.cursor for a key, and  *)
(* the keypress handler of index.ts:147-176 that runs after it.             *)

KeyChars == {"e", "E"}
NavKeys == {"left", "right", "backspace", "delete"}
WorkerMessages == {<<"e", "x">>, <<"x">>}

RlInsert(l, c, ch) == SubSeq(l, 1, c) \o <<ch>> \o SubSeq(l, c + 1, Len(l))

RlLineAfter(key, l, c) ==
    CASE key = "backspace" /\ c > 0 -> SubSeq(l, 1, c - 1) \o SubSeq(l, c + 1, Len(l))
      [] key = "delete" /\ c < Len(l) -> SubSeq(l, 1, c) \o SubSeq(l, c + 2, Len(l))
      [] OTHER -> l

\* mutant of RlCursorAfter: right moves past the end of the line
RlCursorAfter_Unclamped(key, l, c) ==
    CASE key = "left" /\ c > 0 -> c - 1
      [] key = "right" -> c + 1
      [] key = "backspace" /\ c > 0 -> c - 1
      [] OTHER -> c

RlCursorAfter(key, l, c) ==
    CASE key = "left" /\ c > 0 -> c - 1
      [] key = "right" /\ c < Len(l) -> c + 1
      [] key = "backspace" /\ c > 0 -> c - 1
      [] OTHER -> c

\* one call of rl._refreshLine() on the given values
Refreshed(l, c, s) ==
    /\ lastRenders' = <<Drawn(l, c, s, bypassRlLine)>>
    /\ bypassRlLine' = BypassAfter(l, s, bypassRlLine)

\* index.ts:171: process.nextTick(...)
Deferred == pendingTicks' = pendingTicks + 1

execVars == <<currentSessionCommands, historicalCommands, historyFile, heap,
              commandLog, errorFile, question, keyWait, procs, aiCalls,
              defaultModel, keyFile, closed, printed, clipboard, submits, lastInv>>

\* Keys are typed while readline shows a question
AtPrompt == ~closed /\ question # NONE

\* index.ts:147: the handler is entered for the key called name
Key(name) == [name |-> name, delivered |-> FALSE]

\* a printable key: readline inserts it, the handler takes its last branch (170-175)
KeyChar(ch) ==
    /\ AtPrompt
    /\ Len(line) < MaxLen
    /\ pendingTicks < MaxPending
    /\ line' = RlInsert(line, cursor, ch)
    /\ cursor' = cursor + 1
    /\ Deferred
    /\ lastRenders' = <<>>
    /\ lastKey' = Key("char")
    /\ UNCHANGED <<currentSuggestion, suggestionAccepted, bypassRlLine, execVars>>

\* the home key: readline moves the cursor to column 0; the key is not one of
\* those named at index.ts:159-163, so the handler takes its last branch (170-175)
KeyHome ==
    /\ AtPrompt
    /\ pendingTicks < MaxPending
    /\ cursor' = 0
    /\ Deferred
    /\ lastRenders' = <<>>
    /\ lastKey' = Key("home")
    /\ UNCHANGED <<line, currentSuggestion, suggestionAccepted, bypassRlLine,
                   execVars>>

\* mutant of TabAccepts: the tab branch is taken without a suggestion
TabAccepts_Always(s) == TRUE

\* index.ts:150, the second conjunct
TabAccepts(s) == s # EMPTY

\* index.ts:150-155, and 170-175 when there is nothing to accept
KeyTab ==
    /\ AtPrompt
    /\ IF TabAccepts(currentSuggestion)
       THEN /\ line' = currentSuggestion
            /\ cursor' = Len(line')
            /\ currentSuggestion' = EMPTY
            /\ suggestionAccepted' = TRUE
            /\ Refreshed(line', cursor', currentSuggestion')
            /\ lastKey' = Key("accept")
            /\ UNCHANGED pendingTicks
       ELSE /\ Len(line) < MaxLen
            /\ pendingTicks < MaxPending
            /\ line' = RlInsert(line, cursor, "\t")
            /\ cursor' = cursor + 1
            /\ Deferred
            /\ lastRenders' = <<>>
            /\ lastKey' = Key("tab")
            /\ UNCHANGED <<currentSuggestion, suggestionAccepted, bypassRlLine>>
    /\ UNCHANGED execVars

\* index.ts:156-158
KeyEscape ==
    /\ AtPrompt
    /\ currentSuggestion' = EMPTY
    /\ Refreshed(line, cursor, currentSuggestion')
    /\ lastKey' = Key("escape")
    /\ UNCHANGED <<line, cursor, suggestionAccepted, pendingTicks, execVars>>

\* mutant of NavClears: the navigation branch never clears
NavClears_Never(accepted) == FALSE

\* index.ts:165
NavClears(accepted) == accepted

\* index.ts:159-169
KeyNav(key) ==
    /\ AtPrompt
    /\ line' = RlLineAfter(key, line, cursor)
    /\ cursor' = RlCursorAfter(key, line, cursor)
    /\ IF NavClears(suggestionAccepted)
       THEN /\ currentSuggestion' = EMPTY
            /\ suggestionAccepted' = FALSE
            /\ Refreshed(line', cursor', currentSuggestion')
       ELSE /\ lastRenders' = <<>>
            /\ UNCHANGED <<currentSuggestion, suggestionAccepted, bypassRlLine>>
    /\ lastKey' = Key("nav")
    /\ UNCHANGED <<pendingTicks, execVars>>

\* index.ts:171-174 running: updateSuggestion(rl.line), index.ts:201-248
Tick ==
    /\ pendingTicks > 0
    /\ pendingTicks' = pendingTicks - 1
    /\ suggestionAccepted' = FALSE
    /\ IF NoInput(line)
       THEN /\ currentSuggestion' = EMPTY
            /\ lastRenders' = <<>>
            /\ UNCHANGED bypassRlLine
       ELSE /\ currentSuggestion' =
                  SearchPools(line, cursor, currentSessionCommands, historicalCommands)
            /\ Refreshed(line, cursor, currentSuggestion')
    /\ UNCHANGED <<line, cursor, lastKey, execVars>>

\* mutant of Received: a message does not replace a suggestion that is present
Received_IfEmpty(message, s) == IF s = EMPTY THEN message ELSE s

\* index.ts:135, the value assigned to currentSuggestion
Received(message, s) == message

\* index.ts:134-139; the event loop runs the queued next-tick callbacks before it
\* delivers a message
WorkerMessage(message) ==
    /\ ~closed
    /\ pendingTicks = 0
    /\ currentSuggestion' = Received(message, currentSuggestion)
    /\ lastRenders' = <<Drawn(line, cursor, currentSuggestion', TRUE)>>
    /\ bypassRlLine' = BypassAfter(line, currentSuggestion', TRUE)
    /\ lastKey' = [lastKey EXCEPT !.delivered = TRUE]
    /\ UNCHANGED <<line, cursor, suggestionAccepted, pendingTicks, execVars>>

\* readline itself calling rl._refreshLine (a resize, an edit)
Refresh ==
    /\ ~closed
    /\ pendingTicks = 0
    /\ Refreshed(line, cursor, currentSuggestion)
    /\ UNCHANGED <<line, cursor, currentSuggestion, suggestionAccepted,
                   pendingTicks, lastKey, execVars>>

\* index.ts:195-198: readline hands the line to the waiting callback
Answer(text, throws, msg, writeOk) ==
    /\ submits' = submits + 1
    /\ historicalCommands' = historicalCommands
    /\ IF question = "apikey"
       THEN KeyAnswered(text, writeOk)
       ELSE runShellCommand(text, NONE, throws, msg)

\* the return key: readline takes the line and empties the buffer; in Spec the
\* child of a submitted line starts and closes (RunSpec has the other outcomes)
KeyReturn ==
    /\ ~closed
    /\ question # NONE
    /\ submits < MaxReturns
    /\ line' = EMPTY
    /\ cursor' = 0
    /\ lastRenders' = <<>>
    /\ lastKey' = Key("return")
    /\ \E msg \in ErrorMessages, writeOk \in BOOLEAN :
           Answer(line, FALSE, msg, writeOk)
    /\ UNCHANGED <<currentSuggestion, suggestionAccepted, bypassRlLine, pendingTicks>>

----------------------------------------------------------------------------
(* Specifications.                                                         *)

C_ls == <<"l", "s">>
C_xy == <<"x", " ", "y">>
C_cd == <<"c", "d", " ", ".", ".">>
C_cat == <<"c", "a", "t", " ", "f">>
C_hpq == <<"h", "p", " ", "q">>
C_heq == <<"h", "e", " ", "q">>

\* the lines submitted in ExecSpec
ExecCommands == {EMPTY, C_ls, C_xy, C_cd, C_cat, B_history, B_exit, B_switchAI,
                 B_copy, B_hm, B_hp, C_hpq, C_heq}

\* an entry that an earlier run left in ~/.t_error
OldEntry == [logInit(C_ls) EXCEPT !.exitCode = 2]

\* the module's top-level code, index.ts:37-145
InitWith(history, session, oldLog, key) ==
    /\ line = EMPTY
    /\ cursor = 0
    /\ currentSuggestion = EMPTY
    /\ suggestionAccepted = FALSE
    /\ bypassRlLine = FALSE
    /\ pendingTicks = 0
    /\ lastRenders = <<>>
    /\ currentSessionCommands = session
    /\ historicalCommands = history
    /\ historyFile = history \o session
    /\ heap = oldLog
    /\ commandLog = [i \in 1..Len(oldLog) |-> i]
    /\ errorFile = oldLog
    /\ question = "prompt"
    /\ keyWait = <<>>
    /\ procs = <<>>
    /\ aiCalls = <<>>
    /\ defaultModel = "gemini"
    /\ keyFile = key
    /\ closed = FALSE
    /\ printed = [kind |-> "none", text |-> EMPTY]
    /\ clipboard = <<>>
    /\ submits = Len(session)
    /\ lastInv = [NewInv(EMPTY) EXCEPT !.via = "init"]
    /\ lastKey = Key("none")

Init == InitWith(<<>>, <<>>, <<>>, TRUE)

Next ==
    \/ \E ch \in KeyChars : KeyChar(ch)
    \/ KeyHome
    \/ KeyTab
    \/ KeyEscape
    \/ \E key \in NavKeys : KeyNav(key)
    \/ Tick
    \/ \E message \in WorkerMessages : WorkerMessage(message)
    \/ Refresh
    \/ KeyReturn
    \/ \E i \in 1..Len(procs) : \E code \in {0, 1} : ChildClose(i, code, FALSE)

Spec == Init /\ [][Next]_vars

\* the line editor at one prompt: the keys other than return, the deferred
\* recompute, the worker and the render; the session may hold an earlier command
C_Ex == <<"E", "x">>

EditInit == \E session \in {<<>>, <<C_Ex>>} : InitWith(<<>>, session, <<>>, TRUE)

EditNext ==
    \/ \E ch \in KeyChars : KeyChar(ch)
    \/ KeyHome
    \/ KeyTab
    \/ KeyEscape
    \/ \E key \in NavKeys : KeyNav(key)
    \/ Tick
    \/ \E message \in WorkerMessages : WorkerMessage(message)
    \/ Refresh

EditSpec == EditInit /\ [][EditNext]_vars

\* readline hands a whole line to the waiting callback
Submit(command, max) ==
    /\ ~closed
    /\ question # NONE
    /\ submits < max
    /\ \E throws \in BOOLEAN, msg \in ErrorMessages, writeOk \in BOOLEAN :
           Answer(command, throws, msg, writeOk)
    /\ UNCHANGED editorVars

ExecInit ==
    \E oldLog \in {<<>>, <<OldEntry>>}, key \in BOOLEAN :
        InitWith(<<>>, <<>>, oldLog, key)

ExecNext ==
    \/ \E command \in ExecCommands : Submit(command, MaxSubmits)
    \/ \E i \in 1..Len(procs) : \E data \in StderrChunks : ChildStderr(i, data)
    \/ \E i \in 1..Len(procs) : \E msg \in ErrorMessages : ChildError(i, msg)
    \/ \E i \in 1..Len(procs) : \E code \in ExitCodes \cup {SpawnErrno} :
           \E isNull \in BOOLEAN : ChildClose(i, code, isNull)
    \/ \E i \in 1..Len(aiCalls) : \E res \in AIAnswers : AIReturn(i, res)
    \/ \E i \in 1..Len(aiCalls) : AIThrow(i)

ExecSpec == ExecInit /\ [][ExecNext]_vars

\* the lines submitted in RunSpec: all take the generic path
RunCommands == {C_ls, C_xy}

RunInit == \E oldLog \in {<<>>, <<OldEntry>>} : InitWith(<<>>, <<>>, oldLog, TRUE)

RunNext ==
    \/ \E command \in RunCommands : Submit(command, MaxRuns)
    \/ \E i \in 1..Len(procs) : \E data \in StderrChunks : ChildStderr(i, data)
    \/ \E i \in 1..Len(procs) : \E msg \in ErrorMessages : ChildError(i, msg)
    \/ \E i \in 1..Len(procs) : \E code \in ExitCodes \cup {SpawnErrno} :
           \E isNull \in BOOLEAN : ChildClose(i, code, isNull)

RunSpec == RunInit /\ [][RunNext]_vars

----------------------------------------------------------------------------
(* Claims about the generic execution path (RunSpec).                       *)

Last(seq) == seq[Len(seq)]
Running == {i \in 1..Len(procs) : procs[i].phase = "running"}
Terminal(inv) == inv.via \in {"throw", "error", "close"}

\* C1: an invocation of runTheCommand that has had a terminal event (a thrown
\* spawn, an 'error' event, a 'close' event) has called prompt() exactly once.
C1_PromptOnce == Terminal(lastInv) => lastInv.prompts = 1

\* C3: a run whose child closes with a nonzero exit code c has added exactly one
\* entry to the command log and to the file, with exitCode c and the raw command.
C3_OneFailureEntry ==
    (lastInv.via = "close" /\ ~lastInv.isNull /\ lastInv.code # 0) =>
        /\ lastInv.logAdds = 1
        /\ Last(commandLog) = lastInv.entry
        /\ errorFile = saveOutputToFile(commandLog, heap)
        /\ Last(errorFile).exitCode = lastInv.code
        /\ Last(errorFile).raw = lastInv.command

\* C4: a close with exit code 0 adds nothing to the command log or the file; every
\* close appends the raw command once to the history file and the session list.
C4_CloseHistory ==
    lastInv.via = "close" =>
        /\ lastInv.histAdds = 1
        /\ lastInv.sessAdds = 1
        /\ Last(historyFile) = lastInv.command
        /\ Last(currentSessionCommands) = lastInv.command
        /\ (~lastInv.isNull /\ lastInv.code = 0) =>
               /\ lastInv.logAdds = 0
               /\ lastInv.flushes = 0
               /\ \A k \in 1..Len(commandLog) : commandLog[k] # lastInv.entry

C4_Witness ==
    /\ lastInv.via = "close" /\ ~lastInv.isNull /\ lastInv.code = 0
    /\ commandLog # <<>>
    /\ Len(currentSessionCommands) = 2

\* C5: right after a failed launch (an 'error' event or a throwing spawn) the entry
\* has a non-empty error and exitCode 1, it is the last entry of the command log,
\* the file holds the whole log, and the next prompt is issued.
C5_LaunchFailure ==
    lastInv.via \in {"error", "throw"} =>
        /\ heap[lastInv.entry].error # EMPTY
        /\ heap[lastInv.entry].exitCode = 1
        /\ Last(commandLog) = lastInv.entry
        /\ errorFile = saveOutputToFile(commandLog, heap)
        /\ Last(errorFile).raw = lastInv.command
        /\ lastInv.prompts = 1
        /\ question = "prompt"

C5_Witness ==
    /\ lastInv.via = "error"
    /\ Len(commandLog) = 2
    /\ Last(errorFile).error = <<"E", "N", "O", "E", "N", "T">>

\* C6: at most one child that was started and has not closed exists at any time.
C6_OneChild == Cardinality(Running) <= 1

IsPrefix(a, b) == Len(a) <= Len(b) /\ SubSeq(b, 1, Len(a)) = a

\* C13: the in-memory log only grows at its end, what a flush writes has what the
\* previous flush wrote as a prefix, and a step that appends an entry leaves the
\* file equal to the in-memory log.
C13_LogOnlyGrows ==
    [][/\ IsPrefix(commandLog, commandLog')
       /\ IsPrefix(errorFile, errorFile')
       /\ commandLog' # commandLog =>
              errorFile' = saveOutputToFile(commandLog', heap')]_vars

\* C14: every entry in the file has a nonzero exitCode or a recorded launch error.
C14_OnlyFailuresPersisted ==
    \A k \in 1..Len(errorFile) :
        errorFile[k].exitCode # 0 \/ errorFile[k].error # EMPTY

----------------------------------------------------------------------------
(* Claims about the dispatcher and the AI-assist commands (ExecSpec).       *)

\* nothing is in flight that could still call prompt(), and no question waits
Stalled ==
    /\ ~closed
    /\ question = NONE
    /\ procs = <<>>
    /\ aiCalls = <<>>

\* C2: a submitted line other than exit is always followed by a new prompt: the
\* loop is never left with no question waiting and nothing in flight to ask one.
C2_PromptFollows == ~Stalled

\* C10: when hm, hp or he receives the failure sentinel, the fixed message is
\* printed instead of the sentinel and nothing is written to the clipboard.
C10_SentinelMessage ==
    (lastInv.via = "ai" /\ lastInv.got = Text(SENTINEL)) =>
        /\ printed = UNABLE
        /\ lastInv.clips = 0

\* the invocation of a built-in command has run to its end
Completed(inv) == inv.via \in {"builtin", "ai", "nokey"}

\* C18: a built-in command other than exit that has run to its end has called
\* prompt() exactly once.
C18_BuiltinPromptOnce == Completed(lastInv) => lastInv.prompts = 1

----------------------------------------------------------------------------
(* Claims about the line editor (EditSpec; they hold under Spec as well).   *)

\* C7: Tab with a suggestion present makes the buffer the suggestion, puts the
\* cursor at its end, empties the suggestion and sets the accepted flag; Tab with
\* no suggestion changes neither the suggestion nor the flag.
C7_TabAccept ==
    [][KeyTab =>
          IF currentSuggestion # EMPTY
          THEN /\ line' = currentSuggestion
               /\ cursor' = Len(line')
               /\ currentSuggestion' = EMPTY
               /\ suggestionAccepted'
          ELSE /\ currentSuggestion' = currentSuggestion
               /\ suggestionAccepted' = suggestionAccepted]_vars

C7_Witness ==
    /\ suggestionAccepted
    /\ currentSuggestion = EMPTY
    /\ line = <<"e", "x", "i", "t">>
    /\ cursor = 4
    /\ lastRenders # <<>>

\* C8: a render writes dim text only if the lowercase suggestion starts with the
\* lowercase buffer up to the cursor.
C8_GhostOnlyOnPrefix ==
    \A k \in 1..Len(lastRenders) :
        lastRenders[k].ghost =>
            StartsWith(ToLowerCase(lastRenders[k].sug),
                       ToLowerCase(lastRenders[k].before))

C8_Witness ==
    /\ lastRenders # <<>>
    /\ lastRenders[1].ghost
    /\ lastRenders[1].dim = <<"x", "i", "t">>
    /\ line = <<"e">>

\* index.ts:201-245, the value updateSuggestion leaves in currentSuggestion
Recompute(l, c, session, historical) ==
    IF NoInput(l) THEN EMPTY ELSE SearchPools(l, c, session, historical)

\* C11: a delivered message m becomes the suggestion and is drawn by a forced
\* render, whatever the buffer; a deferred recompute that runs writes its own
\* result over whatever was delivered before: the step that ran last decides.
C11_LastWriterWins ==
    [][/\ \A m \in WorkerMessages :
              WorkerMessage(m) =>
                  /\ currentSuggestion' = m
                  /\ Len(lastRenders') = 1
                  /\ lastRenders'[1].custom
                  /\ lastRenders'[1].sug = m
       /\ Tick =>
              currentSuggestion' =
                  Recompute(line, cursor, currentSessionCommands,
                            historicalCommands)]_vars

C11_Witness ==
    /\ line = <<"e">>
    /\ lastKey = [name |-> "char", delivered |-> TRUE]
    /\ currentSuggestion = <<"x">>
    /\ Len(lastRenders) = 1
    /\ lastRenders[1].custom
    /\ ~lastRenders[1].ghost

C17_FrameAndCursor ==
    /\ [](cursor \in 0..Len(line))
    /\ [][\A m \in WorkerMessages :
              WorkerMessage(m) =>
                  /\ line' = line
                  /\ cursor' = cursor
                  /\ suggestionAccepted' = suggestionAccepted
                  /\ pendingTicks' = pendingTicks]_vars

C17_Witness ==
    /\ lastKey = [name |-> "accept", delivered |-> TRUE]
    /\ line = <<"e", "x", "i", "t">>
    /\ cursor = 4
    /\ currentSuggestion = <<"x">>

\* C19: from a Tab acceptance until the next key is handled the accepted flag
\* stays set and, unless the worker delivers a message, the suggestion stays empty.
C19_AcceptanceStands ==
    lastKey.name = "accept" =>
        /\ suggestionAccepted
        /\ ~lastKey.delivered => currentSuggestion = EMPTY

\* C20 (Spec): at the prompt issued after a line was submitted with Return, with
\* no key handled, no message delivered and no recompute queued since, the
\* suggestion is empty.
C20_FreshPromptNoSuggestion ==
    (/\ lastKey = Key("return")
     /\ ~closed
     /\ question = "prompt"
     /\ pendingTicks = 0) => currentSuggestion = EMPTY

\* C15: between events (no deferred recompute queued) a non-empty suggestion
\* starts, case-insensitively, with the buffer up to the cursor.
C15_SuggestionExtendsBuffer ==
    (pendingTicks = 0 /\ currentSuggestion # EMPTY) =>
        StartsWith(ToLowerCase(currentSuggestion),
                   ToLowerCase(SliceTo(line, cursor)))

----------------------------------------------------------------------------
(* The suggestion engine on its own (MatchSpec): one deferred recompute is  *)
(* queued for a buffer, a cursor and pools drawn from bounded sets.         *)

G_status == <<"g", "i", "t", " ", "s", "t", "a", "t", "u", "s">>
G_push == <<"g", "i", "t", " ", "p", "u", "s", "h", " ", "o", "r", "i", "g", "i", "n">>
S_ls == <<" ", "l", "s">>

MatchPool == {G_status, G_push, S_ls}
MatchLines == {<<"g", "i">>, <<"G", "I">>, <<" ">>, <<" ", "l">>, <<"x">>, EMPTY}
Pools == UNION {[1..n -> MatchPool] : n \in 0..MaxPool}

MatchInit ==
    \E l \in MatchLines, session \in Pools, history \in Pools :
        \E c \in 0..Len(l) :
            /\ line = l
            /\ cursor = c
            /\ currentSuggestion = EMPTY
            /\ suggestionAccepted = FALSE
            /\ bypassRlLine = FALSE
            /\ pendingTicks = 1
            /\ lastRenders = <<>>
            /\ currentSessionCommands = session
            /\ historicalCommands = history
            /\ historyFile = history \o session
            /\ heap = <<>>
            /\ commandLog = <<>>
            /\ errorFile = <<>>
            /\ question = "prompt"
            /\ keyWait = <<>>
            /\ procs = <<>>
            /\ aiCalls = <<>>
            /\ defaultModel = "gemini"
            /\ keyFile = TRUE
            /\ closed = FALSE
            /\ printed = [kind |-> "none", text |-> EMPTY]
            /\ clipboard = <<>>
            /\ submits = Len(session)
            /\ lastInv = [NewInv(EMPTY) EXCEPT !.via = "init"]
            /\ lastKey = Key("char")

MatchNext == Tick

MatchSpec == MatchInit /\ [][MatchNext]_vars

\* the reference match of the claim: the last entry that starts with the prefix,
\* case-insensitively, in the first pool that has one
RECURSIVE LastStartingWith(_, _)
LastStartingWith(list, prefix) ==
    IF list = <<>> THEN EMPTY
    ELSE IF StartsWith(ToLowerCase(Last(list)), ToLowerCase(prefix)) THEN Last(list)
    ELSE LastStartingWith(SubSeq(list, 1, Len(list) - 1), prefix)

Reference(prefix, session, historical) ==
    IF LastStartingWith(session, prefix) # EMPTY
    THEN LastStartingWith(session, prefix)
    ELSE IF LastStartingWith(historical, prefix) # EMPTY
    THEN LastStartingWith(historical, prefix)
    ELSE LastStartingWith(commonCommands, prefix)

Recomputed == pendingTicks = 0
Prefix == SliceTo(line, cursor)

\* C9 as stated: for a non-empty prefix the recomputed suggestion is the reference
\* match.
C9_ReferenceMatch ==
    (Recomputed /\ Prefix # EMPTY) =>
        currentSuggestion = Reference(Prefix, currentSessionCommands, historicalCommands)

\* C9 amended: for a non-empty prefix of a buffer that is not whitespace-only the
\* recomputed suggestion is the reference match.
C9_ReferenceMatchNonBlank ==
    (Recomputed /\ Prefix # EMPTY /\ Trim(line) # EMPTY) =>
        currentSuggestion = Reference(Prefix, currentSessionCommands, historicalCommands)

\* C16: a recompute for a buffer whose part up to the cursor is empty or
\* whitespace-only leaves no suggestion.
C16_BlankPrefixNoSuggestion ==
    (Recomputed /\ Trim(Prefix) = EMPTY) => currentSuggestion = EMPTY

C9_Witness ==
    /\ Recomputed
    /\ line = <<"g", "i">>
    /\ cursor = 2
    /\ currentSessionCommands = <<G_status, G_push>>
    /\ historicalCommands = <<G_status>>
    /\ currentSuggestion = G_push

====
